---- MODULE Spec2Model ----
(***************************************************************************)
(* Model of the Optuna driver scripts of the ranking optimisation harness  *)
(* (optimization/optimize_*.py) and of the study ledger they build.        *)
(*                                                                         *)
(* One behaviour is the life of one study: a driver process starts, checks *)
(* its prerequisite files, opens the study, runs trials one at a time      *)
(* against the external Evaluator, and reports the best trial.  A process  *)
(* may be killed at any point; with the durable (SQLite) backend a later   *)
(* process reopens the same study.  A second specification, SpecAnalyzer,  *)
(* is the run of analyze_optuna_results.py on a stored ledger.             *)
(*                                                                         *)
(* The Optuna calls of the drivers (create_study, optimize, best_trial,    *)
(* best_params) are modelled by what the library does at those call sites: *)
(*   - optimize(n_trials, timeout) counts the trials of THIS call, checks  *)
(*     the time budget only between trials, and records each trial as      *)
(*     RUNNING before the objective is called;                             *)
(*   - a TrialPruned raised by the objective ends the trial PRUNED and the *)
(*     loop goes on; any other exception ends it FAIL and is re-raised;    *)
(*     a returned NaN ends it FAIL without an exception;                   *)
(*   - a trial's number is the number of trials already in the study;      *)
(*   - best_trial raises ValueError when the study has no COMPLETE trial.  *)
(***************************************************************************)
EXTENDS Integers, Sequences, FiniteSets, TLC

\* ---------------------------------------------------------------- bounds
N_TRIALS == 2            \* trial budget of one optimize() call (env N_TRIALS)
MaxLedger == 3           \* a new process is started only while the ledger can
                         \* still take a whole budget of trials within this size

Values == {0, 1}         \* metric values the Evaluator prints
Points == {1, 2}         \* points of the search space the sampler proposes

\* ------------------------------------------------------- the driver scripts
Drivers ==
  {"excellent_fit", "ranking", "bm25", "field_weights",
   "stage_a", "desc_weight", "stage2"}

\* Files each main() tests with .exists() before it creates the study.
Checked(d) ==
  CASE d = "excellent_fit" ->
         {"best-stage-a-recall-weights-desc-tuned.json",
          "benchmarks/benchmark-session-context-cache-v2.json",
          "evaluation/evaluate-excellent-fit-llm.js"}
    [] d = "ranking" ->
         {"ranking-weights.json", "benchmark-split.json",
          "benchmark-session-context-cache.json"}
    [] d = "bm25" ->
         {"ranking-weights.json", "benchmark-split.json",
          "benchmark-session-context-cache.json"}
    [] d = "field_weights" ->
         {"ranking-weights.json", "benchmarks/benchmark-split.json",
          "benchmarks/benchmark-session-context-cache.json"}
    [] d = "stage_a" ->
         {"benchmark-session-context-cache-v2.json",
          "evaluate-stage-a-recall.js"}
    [] d = "desc_weight" ->
         {"best-stage-a-recall-weights.json",
          "benchmark-session-context-cache-v2.json",
          "evaluate-stage-a-recall.js"}
    [] d = "stage2" ->
         {"best-stage-a-recall-weights-desc-tuned.json",
          "benchmarks/benchmark-session-context-cache-v2.json",
          "benchmarks/benchmark-split.json",
          "evaluate-ranking-subset.js"}

\* The script each run_evaluator hands to node.
Invoked(d) ==
  CASE d = "excellent_fit" -> "evaluation/evaluate-excellent-fit-llm.js"
    [] d = "ranking"       -> "evaluate-ranking-subset.js"
    [] d = "bm25"          -> "evaluate-ranking-subset.js"
    [] d = "field_weights" -> "evaluation/evaluate-ranking-subset.js"
    [] d = "stage_a"       -> "evaluate-stage-a-recall.js"
    [] d = "desc_weight"   -> "evaluate-stage-a-recall.js"
    [] d = "stage2"        -> "evaluation/evaluate-ranking-subset.js"

\* Every artifact a run of driver d uses.
Needed(d) == Checked(d) \cup {Invoked(d)}

\* main(): the chain of `if not X.exists(): sys.exit(1)` tests.
PrerequisitesOK(d, fs) == Checked(d) \subseteq fs

\* ------------------------------------------------------ evaluator results
\* Output streams are sequences of lines.
StdErrs ==
  {<<>>, <<"429">>, <<"insufficient_quota">>, <<"RateLimitError">>,
   <<"Cannot find module">>}
StdOuts ==
  {<<>>, <<"0">>, <<"1">>, <<"log", "1">>, <<"1", "">>, <<"0", "1">>,
   <<"nan">>, <<"oops">>, <<"429">>}

NoResult == [kind |-> "none", rc |-> 0, stderr |-> <<>>, stdout |-> <<>>]
TimedOut == [kind |-> "timeout", rc |-> 0, stderr |-> <<>>, stdout |-> <<>>]

\* What subprocess.run can produce: TimeoutExpired, or a CompletedProcess
\* with an exit status and the two captured streams.
Results ==
  {TimedOut}
  \cup {[kind |-> "exit", rc |-> 0, stderr |-> e, stdout |-> o] :
          e \in {<<>>, <<"429">>}, o \in StdOuts}
  \cup {[kind |-> "exit", rc |-> 1, stderr |-> e, stdout |-> o] :
          e \in StdErrs, o \in {<<>>, <<"429">>, <<"oops">>}}

\* node cannot load a missing script: exit status 1 and a loader message.
MissingScript ==
  [kind |-> "exit", rc |-> 1, stderr |-> <<"Cannot find module">>,
   stdout |-> <<>>]

\* `result.stderr or result.stdout`
ErrorOutput(r) == IF r.stderr # <<>> THEN r.stderr ELSE r.stdout

\* `sub in text`
Contains(text, sub) == \E i \in 1..Len(text) : text[i] = sub

\* the three transient signatures of the excellent-fit driver
HasTransientSignature(text) ==
  \/ Contains(text, "insufficient_quota")
  \/ Contains(text, "429")
  \/ Contains(text, "RateLimitError")

IsBlank(l) == l = ""
NotBlank(l) == l # ""

\* [l.strip() for l in stdout.strip().split("\n") if l.strip()]
NonBlankLines(out) == SelectSeq(out, NotBlank)

RECURSIVE LStrip(_)
LStrip(out) ==
  IF out # <<>> /\ IsBlank(Head(out)) THEN LStrip(Tail(out)) ELSE out

RECURSIVE RStrip(_)
RStrip(out) ==
  IF out # <<>> /\ IsBlank(out[Len(out)])
    THEN RStrip(SubSeq(out, 1, Len(out) - 1))
    ELSE out

\* stdout.strip(), on lines
Strip(out) == RStrip(LStrip(out))

Numerals == <<"0", "1", "2", "3">>

\* float(text): a number, NaN, or ValueError.  The diagnostic line "429" is
\* a numeral too.
Float(l) ==
  IF l = "nan" THEN [ok |-> TRUE, nan |-> TRUE, v |-> 0]
  ELSE IF l = "429" THEN [ok |-> TRUE, nan |-> FALSE, v |-> 429]
  ELSE IF \E v \in Values : Numerals[v + 1] = l
    THEN [ok |-> TRUE, nan |-> FALSE,
          v |-> CHOOSE v \in Values : Numerals[v + 1] = l]
    ELSE [ok |-> FALSE, nan |-> FALSE, v |-> 0]

\* How an objective call ends: a returned float, TrialPruned, or another
\* exception.
Returned(f) == [ret |-> "return", nan |-> f.nan, val |-> f.v]
Pruned == [ret |-> "pruned", nan |-> FALSE, val |-> 0]
Raised == [ret |-> "raise", nan |-> FALSE, val |-> 0]

\* (mutant) the value is read from the first non-blank line
ParseLastLine_FirstLine(out) ==
  LET lines == NonBlankLines(out)
  IN  IF lines = <<>> THEN Raised
      ELSE LET f == Float(lines[1])
           IN  IF f.ok THEN Returned(f) ELSE Raised

\* float(lines[-1]) after the `if not lines: raise RuntimeError`
ParseLastLine(out) ==
  LET lines == NonBlankLines(out)
  IN  IF lines = <<>> THEN Raised
      ELSE LET f == Float(lines[Len(lines)])
           IN  IF f.ok THEN Returned(f) ELSE Raised

\* float(result.stdout.strip())
ParseWhole(out) ==
  LET s == Strip(out)
  IN  IF Len(s) # 1 THEN Raised
      ELSE LET f == Float(s[1])
           IN  IF f.ok THEN Returned(f) ELSE Raised

\* (mutant) every non-zero exit raises RuntimeError, no pruning
RunEvaluatorExcellentFit_NeverPrunes(r) ==
  IF r.kind = "timeout" THEN Pruned
  ELSE IF r.rc # 0 THEN Raised
  ELSE ParseLastLine(r.stdout)

\* (mutant) the signature test comes before the exit status test
RunEvaluatorExcellentFit_SignatureFirst(r) ==
  IF r.kind = "timeout" THEN Pruned
  ELSE IF HasTransientSignature(ErrorOutput(r)) THEN Pruned
  ELSE IF r.rc # 0 THEN Raised
  ELSE ParseLastLine(r.stdout)

\* optimize_excellent_fit_top3.run_evaluator
RunEvaluatorExcellentFit(r) ==
  IF r.kind = "timeout" THEN Pruned
  ELSE IF r.rc # 0
    THEN IF HasTransientSignature(ErrorOutput(r)) THEN Pruned ELSE Raised
    ELSE ParseLastLine(r.stdout)

\* run_evaluator / run_stage_a_recall of stage2, stage_a and desc_weight:
\* TimeoutExpired is not caught
RunEvaluatorLastLine(r) ==
  IF r.kind = "timeout" THEN Raised
  ELSE IF r.rc # 0 THEN Raised
  ELSE ParseLastLine(r.stdout)

\* run_evaluator of ranking, bm25 and field_weights
RunEvaluatorWhole(r) ==
  IF r.kind = "timeout" THEN Raised
  ELSE IF r.rc # 0 THEN Raised
  ELSE ParseWhole(r.stdout)

RunEvaluator(d, r) ==
  CASE d = "excellent_fit" -> RunEvaluatorExcellentFit(r)
    [] d \in {"stage2", "stage_a", "desc_weight"} -> RunEvaluatorLastLine(r)
    [] OTHER -> RunEvaluatorWhole(r)

\* ------------------------------------------------------------ the ledger
None == <<>>
Some(v) == <<v>>

\* (mutant) the new trial is numbered by the trials that have a value
NewTrial_NumberedByCompleted(ts, p) ==
  [number |-> Cardinality({i \in 1..Len(ts) : ts[i].state = "COMPLETE"}),
   state |-> "RUNNING", value |-> None, params |-> p]

\* study.ask(): the new trial, numbered by the size of the study
NewTrial(ts, p) ==
  [number |-> Len(ts), state |-> "RUNNING", value |-> None, params |-> p]

\* The state optimize() records for an objective outcome.
TellState(o) ==
  CASE o.ret = "pruned" -> "PRUNED"
    [] o.ret = "raise" -> "FAIL"
    [] o.ret = "return" -> IF o.nan THEN "FAIL" ELSE "COMPLETE"

TellValue(o) ==
  IF o.ret = "return" /\ ~o.nan THEN Some(o.val) ELSE None

\* (mutant) optimize() swallows the objective's exceptions
Propagates_CatchAll(o) == FALSE

\* optimize() re-raises what the objective raised (catch=() by default).
Propagates(o) == o.ret = "raise"

\* (mutant) a failing trial replaces the ledger
Tell_FailureDropsLedger(ts, o) ==
  IF TellState(o) = "FAIL"
    THEN <<[ts[Len(ts)] EXCEPT !.state = "FAIL"]>>
    ELSE [ts EXCEPT ![Len(ts)] =
            [@ EXCEPT !.state = TellState(o), !.value = TellValue(o)]]

\* Recording the outcome on the trial in flight, the last of the ledger.
Tell(ts, o) ==
  [ts EXCEPT ![Len(ts)] =
     [@ EXCEPT !.state = TellState(o), !.value = TellValue(o)]]

Completed(ts) == {i \in 1..Len(ts) : ts[i].state = "COMPLETE"}

\* (mutant) the scan keeps the last trial of the largest value
RECURSIVE BestScan_LastOfTies(_, _, _)
BestScan_LastOfTies(ts, i, best) ==
  IF i > Len(ts) THEN best
  ELSE IF ts[i].state = "COMPLETE"
          /\ (best = 0 \/ ts[best].value[1] <= ts[i].value[1])
    THEN BestScan_LastOfTies(ts, i + 1, i)
    ELSE BestScan_LastOfTies(ts, i + 1, best)

\* best_trial of a maximize study: the scan keeps the first trial of the
\* largest value.
RECURSIVE BestScan(_, _, _)
BestScan(ts, i, best) ==
  IF i > Len(ts) THEN best
  ELSE IF ts[i].state = "COMPLETE"
          /\ (best = 0 \/ ts[best].value[1] < ts[i].value[1])
    THEN BestScan(ts, i + 1, i)
    ELSE BestScan(ts, i + 1, best)

\* (mutant) the latest COMPLETE trial is taken for the best
BestIndex_LastCompleted(ts) ==
  IF Completed(ts) = {} THEN 0
  ELSE CHOOSE i \in Completed(ts) : \A j \in Completed(ts) : j <= i

\* index in the ledger of the trial best_trial returns, 0 for no trial
BestIndex(ts) == BestScan(ts, 1, 0)

\* study.best_trial / study.best_params: ValueError when the study holds no
\* COMPLETE trial, the best trial otherwise (never None)
BestTrialLookup(ts) ==
  IF Completed(ts) = {}
    THEN [raised |-> TRUE, index |-> 0]
    ELSE [raised |-> FALSE, index |-> BestIndex(ts)]

\* check_study_status.py: `remaining = max(0, N_TRIALS - total_trials)`
Remaining(total_trials) ==
  IF N_TRIALS - total_trials > 0 THEN N_TRIALS - total_trials ELSE 0

\* create_study(): the stored ledger with storage and load_if_exists, a
\* fresh in-memory study otherwise
CreateStudy(durable, stored) == IF durable THEN stored ELSE <<>>

\* ---------------------------------------------------- parameter files
\* A parameter file is a JSON object; a key of it is named by its path.
\* One key of each kind the objectives treat differently:
\*   anchor_per_match  top level, in RESCORE_RANGES and in ranking's params
\*   k1                top level, sampled by bm25 and stage_a
\*   field_weights.description            nested, in FIELD_RANGES
\*   field_weights.specialty_description  nested, in no range
ParamKeys ==
  {"anchor_per_match", "k1", "field_weights.description",
   "field_weights.specialty_description"}

NestedKeys ==
  {"field_weights.description", "field_weights.specialty_description"}

\* The keys of FIELD_RANGES, as paths.
FieldRangeKeys == {"field_weights.description"}

\* The base configuration as it is before the study starts: every key
\* present, with a value no sampler proposes.
BaseConfig == [k \in ParamKeys |-> Some(0)]

\* A file that does not exist or holds no key.
NoFile == [k \in ParamKeys |-> None]

\* The file the objective of driver d loads before it overlays the sample:
\* BASE_WEIGHTS, or WEIGHTS_PATH itself (cur), or nothing.
Loaded(d, cur) ==
  CASE d \in {"excellent_fit", "stage2", "desc_weight"} -> BaseConfig
    [] d \in {"ranking", "bm25", "field_weights"} -> cur
    [] d = "stage_a" -> NoFile

\* (mutant) the objective leaves WEIGHTS_PATH as it is
ParamFileWritten_NotWritten(d, cur, p) == cur

\* objective(): what is dumped to WEIGHTS_PATH for the sampled point p.
\*   excellent_fit, stage2: params[key] = suggest for key in RESCORE_RANGES
\*   ranking, bm25: weights.update(params)
\*   stage_a: the dict of stage_a_top_n, k1 and b alone
\*   desc_weight: params["field_weights"]["description"] = desc_about
\*   field_weights: weights["field_weights"] = field_weights, the whole
\*     group replaced by the dict over FIELD_RANGES
ParamFileWritten(d, cur, p) ==
  LET base == Loaded(d, cur)
  IN  CASE d \in {"excellent_fit", "stage2", "ranking"} ->
             [base EXCEPT !["anchor_per_match"] = Some(p)]
        [] d \in {"bm25", "stage_a"} ->
             [base EXCEPT !["k1"] = Some(p)]
        [] d = "desc_weight" ->
             [base EXCEPT !["field_weights.description"] = Some(p)]
        [] d = "field_weights" ->
             [k \in ParamKeys |->
                IF k \in NestedKeys
                  THEN IF k \in FieldRangeKeys THEN Some(p) ELSE None
                  ELSE base[k]]

\* The drivers whose main() evaluates the best parameters on the holdout
\* set after the study.
HoldoutDrivers == {"ranking", "bm25", "field_weights"}

\* main(): what is dumped to the best-weights file for the best point p;
\* cur is WEIGHTS_PATH as the last trial left it.
\*   excellent_fit, stage2: BASE_WEIGHTS with out[key] = best_params[key]
\*   desc_weight: BASE_WEIGHTS with description and about set
\*   ranking, bm25: WEIGHTS_PATH with weights.update(best)
\*   stage_a: the dict of stage_a_top_n, k1 and b alone
\*   field_weights: {"field_weights": best_field_weights} alone
BestFileWritten(d, cur, p) ==
  CASE d \in {"excellent_fit", "stage2"} ->
         [BaseConfig EXCEPT !["anchor_per_match"] = Some(p)]
    [] d = "desc_weight" ->
         [BaseConfig EXCEPT !["field_weights.description"] = Some(p)]
    [] d = "ranking" -> [cur EXCEPT !["anchor_per_match"] = Some(p)]
    [] d = "bm25" -> [cur EXCEPT !["k1"] = Some(p)]
    [] d = "stage_a" -> [NoFile EXCEPT !["k1"] = Some(p)]
    [] d = "field_weights" ->
         [k \in ParamKeys |-> IF k \in FieldRangeKeys THEN Some(p) ELSE None]

\* main(): the `weights` dumped to WEIGHTS_PATH before the holdout run.
HoldoutFileWritten(d, cur, p) ==
  CASE d = "ranking" -> [cur EXCEPT !["anchor_per_match"] = Some(p)]
    [] d = "bm25" -> [cur EXCEPT !["k1"] = Some(p)]
    [] d = "field_weights" ->
         [k \in ParamKeys |->
            IF k \in NestedKeys
              THEN IF k \in FieldRangeKeys THEN Some(p) ELSE None
              ELSE cur[k]]
    [] OTHER -> cur

\* ----------------------------------------------------------- the analyzer
\* analyze_optuna_results.py: the ledger of study "excellent_fit_top3" is
\* loaded from the SQLite file, the COMPLETE trials are analysed, the
\* analysis is dumped as JSON and a markdown report is written from it.
\* Floats are modelled by integers and by exact fractions num/den (the
\* statistics module computes mean and median exactly before rounding).

MaxStudy == 24           \* longest ledger the analyzer is run on

FallbackBaseline == 65   \* `baseline_value = 65.0`
MinForComparison == 20   \* `if len(trials_data) >= 20`
GroupSize == 10          \* trials_data[:10], trials_data[-10:]

\* The sampled parameters a trial's params dict holds, in dict order (three
\* of the keys of RESCORE_RANGES, the ones the report prints).
ParamNames == <<"procedure_per_match", "anchor_per_match",
                "subspecialty_factor">>

\* Ledgers load_study can return: n trials numbered from 0, their states
\* and values following one of a few shapes.
StatePatterns == {"complete", "none", "sparse", "half"}
ValuePatterns == {"asc", "desc", "ties", "const"}

StateAt(sp, num) ==
  CASE sp = "complete" -> "COMPLETE"
    [] sp = "none" -> "PRUNED"
    [] sp = "sparse" -> IF num % 12 = 5 THEN "PRUNED"
                        ELSE IF num % 12 = 9 THEN "RUNNING"
                        ELSE "COMPLETE"
    [] sp = "half" -> IF num % 2 = 0 THEN "COMPLETE"
                      ELSE IF num % 4 = 1 THEN "PRUNED"
                      ELSE "FAIL"

ValueAt(vp, num) ==
  CASE vp = "asc" -> num + 1
    [] vp = "desc" -> 0 - num
    [] vp = "ties" -> num % 3
    [] vp = "const" -> 1

ParamsAt(num, v) ==
  [name \in {ParamNames[i] : i \in 1..Len(ParamNames)} |->
     CASE name = "procedure_per_match" -> num % 2
       [] name = "anchor_per_match" -> v
       [] name = "subspecialty_factor" -> num % 4]

StudyOf(n, vp, sp) ==
  [i \in 1..n |->
     [number |-> i - 1,
      state |-> StateAt(sp, i - 1),
      value |-> IF StateAt(sp, i - 1) = "COMPLETE"
                  THEN Some(ValueAt(vp, i - 1))
                  ELSE None,
      params |-> ParamsAt(i - 1, ValueAt(vp, i - 1))]]

\* What the baseline file gives for "pct_cases_top3_all_excellent": None
\* when the file or the key is missing.
BaselineInputs == {None, Some(0), Some(2), Some(65)}

\* lines 18-34
BaselineValue(bf) == IF bf = None THEN FallbackBaseline ELSE bf[1]

\* `if x` on a number
Truthy(x) == x # 0

\* line 59
Improvement(best, bl) ==
  IF Truthy(best) /\ Truthy(bl) THEN Some(best - bl) ELSE None

IsComplete(t) == t.state = "COMPLETE"

\* trial_dict
TrialDict(t) ==
  [number |-> t.number, value |-> t.value[1], params |-> t.params]

\* (mutant) the sort is ascending
RECURSIVE InsertByValueDesc_Ascending(_, _)
InsertByValueDesc_Ascending(rows, x) ==
  IF rows = <<>> THEN <<x>>
  ELSE IF Head(rows).value <= x.value
    THEN <<Head(rows)>> \o InsertByValueDesc_Ascending(Tail(rows), x)
    ELSE <<x>> \o rows

\* list.sort(key=value, reverse=True): stable, equal values keep their order
RECURSIVE InsertByValueDesc(_, _)
InsertByValueDesc(rows, x) ==
  IF rows = <<>> THEN <<x>>
  ELSE IF Head(rows).value >= x.value
    THEN <<Head(rows)>> \o InsertByValueDesc(Tail(rows), x)
    ELSE <<x>> \o rows

RECURSIVE SortByValueDesc(_)
SortByValueDesc(rows) ==
  IF rows = <<>> THEN <<>>
  ELSE InsertByValueDesc(SortByValueDesc(SubSeq(rows, 1, Len(rows) - 1)),
                         rows[Len(rows)])

\* trials_data: the COMPLETE trials, highest value first
TrialsData(st) ==
  LET c == SelectSeq(st, IsComplete)
  IN  SortByValueDesc([i \in 1..Len(c) |-> TrialDict(c[i])])

\* s[:k] and s[-k:]
FirstK(s, k) == SubSeq(s, 1, IF Len(s) < k THEN Len(s) ELSE k)
LastK(s, k) == SubSeq(s, IF Len(s) < k THEN 1 ELSE Len(s) - k + 1, Len(s))

\* sorted(values)
RECURSIVE InsertAsc(_, _)
InsertAsc(xs, x) ==
  IF xs = <<>> THEN <<x>>
  ELSE IF Head(xs) <= x THEN <<Head(xs)>> \o InsertAsc(Tail(xs), x)
  ELSE <<x>> \o xs

RECURSIVE Sorted(_)
Sorted(xs) ==
  IF xs = <<>> THEN <<>>
  ELSE InsertAsc(Sorted(SubSeq(xs, 1, Len(xs) - 1)), xs[Len(xs)])

RECURSIVE SumSeq(_)
SumSeq(xs) == IF xs = <<>> THEN 0 ELSE Head(xs) + SumSeq(Tail(xs))

SumSquares(xs) == SumSeq([i \in 1..Len(xs) |-> xs[i] * xs[i]])

Rat(n, d) == [num |-> n, den |-> d]

\* statistics.mean / median on a non-empty list
Mean(xs) == Rat(SumSeq(xs), Len(xs))

Median(xs) ==
  LET s == Sorted(xs)
      n == Len(xs)
  IN  IF n % 2 = 1 THEN Rat(s[(n + 1) \div 2], 1)
      ELSE Rat(s[n \div 2] + s[(n \div 2) + 1], 2)

\* (mutant) the second moment about zero instead of about the mean
StdSquared_Uncentered(xs) == Rat(SumSquares(xs), Len(xs))

\* `stdev(xs) if len(xs) > 1 else 0.0`, kept as the fraction it is the
\* square root of
StdSquared(xs) ==
  LET n == Len(xs)
  IN  IF n > 1
        THEN Rat(n * SumSquares(xs) - SumSeq(xs) * SumSeq(xs), n * (n - 1))
        ELSE Rat(0, 1)

\* mean(a) - mean(b)
RatMinus(a, b) == Rat(a.num * b.den - b.num * a.den, a.den * b.den)

Abs(x) == IF x < 0 THEN 0 - x ELSE x

\* abs(a) >= abs(b) on fractions with positive denominators
AbsGeq(a, b) == Abs(a.num) * b.den >= Abs(b.num) * a.den

\* sorted_values[n // 4], 0-based in the code
Q25(xs) == Sorted(xs)[(Len(xs) \div 4) + 1]

\* (mutant) the upper quartile is taken at index 3 * (n - 1) // 4
Q75_OnNMinusOne(xs) == Sorted(xs)[((3 * (Len(xs) - 1)) \div 4) + 1]

\* sorted_values[3 * n // 4], 0-based in the code
Q75(xs) == Sorted(xs)[((3 * Len(xs)) \div 4) + 1]

\* analysis["value_distribution"], for at least one COMPLETE trial
ValueDistribution(td) ==
  LET values == [i \in 1..Len(td) |-> td[i].value]
      s == Sorted(values)
  IN  [min |-> s[1],
       max |-> s[Len(s)],
       mean |-> Mean(values),
       median |-> Median(values),
       std |-> StdSquared(values),
       q25 |-> Q25(values),
       q75 |-> Q75(values)]

ParamValues(rows, name) == [i \in 1..Len(rows) |-> rows[i].params[name]]

\* analysis["parameter_statistics"][param]
ParamStats(name, td) ==
  LET values == ParamValues(td, name)
      s == Sorted(values)
  IN  [param |-> name,
       mean |-> Mean(values),
       median |-> Median(values),
       std |-> StdSquared(values),
       min |-> s[1],
       max |-> s[Len(s)]]

\* analysis["top_10_average_params"][param]
TopAverage(name, td) ==
  LET values == ParamValues(FirstK(td, GroupSize), name)
  IN  [param |-> name, mean |-> Mean(values), median |-> Median(values)]

\* (mutant) the comparison is computed for any number of COMPLETE trials
CorrelationAnalysis_Always(td) ==
  [i \in 1..Len(ParamNames) |->
     LET top_vals == ParamValues(FirstK(td, GroupSize), ParamNames[i])
         bottom_vals == ParamValues(LastK(td, GroupSize), ParamNames[i])
     IN  [param |-> ParamNames[i],
          top_10_mean |-> Mean(top_vals),
          bottom_10_mean |-> Mean(bottom_vals),
          difference |-> RatMinus(Mean(top_vals), Mean(bottom_vals))]]

\* analysis["correlation_analysis"]: one entry per parameter, in the order
\* of param_names, once there are 20 COMPLETE trials; {} before
CorrelationAnalysis(td) ==
  IF Len(td) >= MinForComparison
    THEN [i \in 1..Len(ParamNames) |->
            LET top_vals == ParamValues(FirstK(td, GroupSize), ParamNames[i])
                bottom_vals ==
                  ParamValues(LastK(td, GroupSize), ParamNames[i])
            IN  [param |-> ParamNames[i],
                 top_10_mean |-> Mean(top_vals),
                 bottom_10_mean |-> Mean(bottom_vals),
                 difference |-> RatMinus(Mean(top_vals), Mean(bottom_vals))]]
    ELSE <<>>

\* (mutant) completed_trials counts every trial of the study
CompletedCount_AllTrials(st) == Len(st)

\* "completed_trials": len(trials_data)
CompletedCount(st) == Len(TrialsData(st))

\* The keys of the dumped analysis object.
AnalysisKeys ==
  {"summary", "top_10_trials", "parameter_statistics",
   "correlation_analysis", "top_10_average_params", "value_distribution"}

\* The analysis dict as it is dumped to optuna_analysis.json, for a study
\* with a COMPLETE trial.
Analysis(st, bf) ==
  LET td == TrialsData(st)
      best == st[BestIndex(st)]
  IN  [keys |-> AnalysisKeys,
       summary |->
         [total_trials |-> Len(st),
          completed_trials |-> CompletedCount(st),
          best_value |-> best.value[1],
          best_trial_number |-> best.number,
          baseline_value |-> BaselineValue(bf),
          improvement_over_baseline |->
            Improvement(best.value[1], BaselineValue(bf))],
       top_10_trials |-> FirstK(td, GroupSize),
       parameter_statistics |->
         [i \in 1..Len(ParamNames) |-> ParamStats(ParamNames[i], td)],
       correlation_analysis |-> CorrelationAnalysis(td),
       top_10_average_params |->
         [i \in 1..Len(ParamNames) |-> TopAverage(ParamNames[i], td)],
       value_distribution |-> ValueDistribution(td)]

\* (mutant) the rows are sorted by ascending absolute difference
RECURSIVE InsertByAbsDifference_Ascending(_, _)
InsertByAbsDifference_Ascending(rows, x) ==
  IF rows = <<>> THEN <<x>>
  ELSE IF AbsGeq(x.difference, Head(rows).difference)
    THEN <<Head(rows)>> \o InsertByAbsDifference_Ascending(Tail(rows), x)
    ELSE <<x>> \o rows

\* sorted(items, key=abs(difference), reverse=True): stable
RECURSIVE InsertByAbsDifference(_, _)
InsertByAbsDifference(rows, x) ==
  IF rows = <<>> THEN <<x>>
  ELSE IF AbsGeq(Head(rows).difference, x.difference)
    THEN <<Head(rows)>> \o InsertByAbsDifference(Tail(rows), x)
    ELSE <<x>> \o rows

RECURSIVE SortByAbsDifference(_)
SortByAbsDifference(rows) ==
  IF rows = <<>> THEN <<>>
  ELSE InsertByAbsDifference(
         SortByAbsDifference(SubSeq(rows, 1, Len(rows) - 1)),
         rows[Len(rows)])

\* The markdown report written from the analysis: its sections, the rows
\* of its tables, and the optional lines of the summary.
Report(a) ==
  [sections |->
     {"Summary", "Value Distribution", "Top 10 Trials",
      "Top 10 Average Parameters", "Best Trial Parameters"}
     \cup (IF a.correlation_analysis # <<>>
             THEN {"Parameter Analysis: Top 10 vs Bottom 10"}
             ELSE {}),
   baseline_line |-> Truthy(a.summary.baseline_value),
   improvement_line |->
     /\ Truthy(a.summary.baseline_value)
     /\ a.summary.improvement_over_baseline # None
     /\ Truthy(a.summary.improvement_over_baseline[1]),
   top_10_rows |-> FirstK(a.top_10_trials, GroupSize),
   comparison_rows |-> SortByAbsDifference(a.correlation_analysis)]

\* ------------------------------------------------------------------ state
VARIABLES
  driver,        \* the script being run
  files,         \* artifacts present under ROOT_DIR
  resume,        \* OPTUNA_RESUME (excellent_fit)
  studyTimeout,  \* STUDY_TIMEOUT is set (excellent_fit)
  pc,            \* where the driver process is
  trials,        \* the study's ledger
  i_trial,       \* trials started by the current optimize() call
  expired,       \* the study time budget of the current call has run out
  result,        \* what the latest Evaluator call of this process produced
  weightsFile,   \* point last written to WEIGHTS_PATH, None if never written
  paramFile,     \* the content of WEIGHTS_PATH, key by key
  bestOut,       \* point written to the best-weights file, None if none
  bestFile,      \* the content of the best-weights file, key by key
  study,         \* the ledger the analyzer loaded
  baselineFile,  \* the metric read from the baseline file, None if missing
  apc,           \* where the analyzer process is
  analysis,      \* the analysis dumped to optuna_analysis.json
  report         \* the markdown report written

vars ==
  <<driver, files, resume, studyTimeout, pc, trials, i_trial, expired,
    result, weightsFile, paramFile, bestOut, bestFile,
    study, baselineFile, apc, analysis, report>>

analyzer == <<study, baselineFile, apc, analysis, report>>

\* What no step of a driver process changes: its configuration, and the
\* analyzer, which is a separate script.
config == <<driver, files, resume, studyTimeout, analyzer>>

\* create_study(storage=sqlite, load_if_exists=True)
Durable == driver = "excellent_fit" /\ resume

\* (mutant) optimize() is called without the timeout argument
TimeBudgetHit_Ignored == FALSE

\* optimize(timeout=STUDY_TIMEOUT): the test at the top of each iteration
TimeBudgetHit == studyTimeout /\ expired

\* The analyzer has not been started.
AnalyzerIdle ==
  /\ study = <<>>
  /\ baselineFile = None
  /\ apc = "idle"
  /\ analysis = None
  /\ report = None

Init ==
  /\ AnalyzerIdle
  /\ driver \in Drivers
  /\ files \in SUBSET Needed(driver)
  /\ resume \in (IF driver = "excellent_fit" THEN BOOLEAN ELSE {FALSE})
  /\ studyTimeout \in (IF driver = "excellent_fit" THEN BOOLEAN ELSE {FALSE})
  /\ pc = "start"
  /\ trials = <<>>
  /\ i_trial = 0
  /\ expired = FALSE
  /\ result = NoResult
  /\ weightsFile = None
  /\ paramFile = IF /\ driver \in {"ranking", "bm25", "field_weights"}
                    /\ "ranking-weights.json" \in files
                   THEN BaseConfig
                   ELSE NoFile
  /\ bestOut = None
  /\ bestFile = NoFile

\* main() up to the call of optimize(): prerequisite tests, create_study.
Main ==
  /\ pc = "start"
  /\ IF PrerequisitesOK(driver, files)
       THEN /\ pc' = "loop"
            /\ trials' = CreateStudy(Durable, trials)
       ELSE /\ pc' = "exited"
            /\ trials' = trials
  /\ UNCHANGED <<config, i_trial, expired, result, weightsFile, paramFile,
                 bestOut, bestFile>>

\* One iteration of optimize() up to the blocking Evaluator call: ask,
\* suggest, write WEIGHTS_PATH, start the subprocess.
Ask ==
  /\ pc = "loop"
  /\ i_trial < N_TRIALS
  /\ ~TimeBudgetHit
  /\ \E p \in Points :
       /\ trials' = Append(trials, NewTrial(trials, p))
       /\ weightsFile' = Some(p)
       /\ paramFile' = ParamFileWritten(driver, paramFile, p)
  /\ i_trial' = i_trial + 1
  /\ pc' = "evaluating"
  /\ UNCHANGED <<config, expired, result, bestOut, bestFile>>

\* (mutant) a pruned trial gives its place in the budget back
EvaluatorReturns_PrunedNotCounted ==
  /\ pc = "evaluating"
  /\ \E r \in Results :
       /\ Invoked(driver) \notin files => r = MissingScript
       /\ result' = r
       /\ LET o == RunEvaluator(driver, r)
          IN  /\ trials' = Tell(trials, o)
              /\ pc' = IF Propagates(o) THEN "aborted" ELSE "loop"
              /\ i_trial' = IF o.ret = "pruned" THEN i_trial - 1 ELSE i_trial
  /\ UNCHANGED <<config, expired, weightsFile, paramFile, bestOut, bestFile>>

\* The Evaluator call ends; run_evaluator classifies it and optimize()
\* records the trial.
EvaluatorReturns ==
  /\ pc = "evaluating"
  /\ \E r \in Results :
       /\ Invoked(driver) \notin files => r = MissingScript
       /\ result' = r
       /\ LET o == RunEvaluator(driver, r)
          IN  /\ trials' = Tell(trials, o)
              /\ pc' = IF Propagates(o) THEN "aborted" ELSE "loop"
  /\ UNCHANGED <<config, i_trial, expired, weightsFile, paramFile,
               bestOut, bestFile>>

\* The study-level wall clock passes STUDY_TIMEOUT.
Expire ==
  /\ pc \in {"loop", "evaluating"}
  /\ studyTimeout
  /\ ~expired
  /\ expired' = TRUE
  /\ UNCHANGED <<config, pc, trials, i_trial, result, weightsFile, paramFile,
                 bestOut, bestFile>>

\* optimize() returns (budget or time); main() looks up the best trial and
\* writes the best weights.
Finish ==
  /\ pc = "loop"
  /\ i_trial >= N_TRIALS \/ TimeBudgetHit
  /\ LET best == BestTrialLookup(trials)
     IN  IF best.raised
           THEN /\ pc' = "lookup_error"
                /\ UNCHANGED <<bestOut, bestFile, paramFile>>
           ELSE IF best.index = 0
             THEN /\ pc' = "no_result"
                  /\ UNCHANGED <<bestOut, bestFile, paramFile>>
             ELSE LET p == trials[best.index].params
                  IN  /\ pc' = IF driver \in HoldoutDrivers
                                 THEN "holdout"
                                 ELSE "done"
                      /\ bestOut' = Some(p)
                      /\ bestFile' = BestFileWritten(driver, paramFile, p)
                      /\ paramFile' = HoldoutFileWritten(driver, paramFile, p)
  /\ UNCHANGED <<config, trials, i_trial, expired, result, weightsFile>>

\* The holdout Evaluator call of ranking, bm25 and field_weights ends:
\* run_evaluator raises, or the holdout metrics are written.
HoldoutReturns ==
  /\ pc = "holdout"
  /\ \E r \in Results :
       /\ Invoked(driver) \notin files => r = MissingScript
       /\ pc' = IF Propagates(RunEvaluator(driver, r))
                  THEN "holdout_error"
                  ELSE "done"
  /\ UNCHANGED <<config, trials, i_trial, expired, result, weightsFile,
                 paramFile, bestOut, bestFile>>

\* The process is killed.
Crash ==
  /\ pc \in {"loop", "evaluating"}
  /\ pc' = "crashed"
  /\ UNCHANGED <<config, trials, i_trial, expired, result, weightsFile,
                 paramFile, bestOut, bestFile>>

\* "aborted": the objective's exception left optimize() and main();
\* "lookup_error": ValueError from best_trial / best_params left main();
\* "no_result": the `best_trial is None` branch printed its message, exit 1;
\* "holdout_error": the exception of the holdout run left main();
\* "done": the best weights (and the holdout metrics) were written.
Ended ==
  {"aborted", "done", "no_result", "lookup_error", "holdout_error",
   "crashed"}

\* The script is started again on the same SQLite file.
Resume ==
  /\ pc \in Ended
  /\ Durable
  /\ Len(trials) + N_TRIALS <= MaxLedger
  /\ pc' = "start"
  /\ i_trial' = 0
  /\ expired' = FALSE
  /\ result' = NoResult
  /\ UNCHANGED <<config, trials, weightsFile, paramFile, bestOut, bestFile>>

Next ==
  \/ Main
  \/ Ask
  \/ EvaluatorReturns
  \/ Expire
  \/ Finish
  \/ HoldoutReturns
  \/ Crash
  \/ Resume

Spec == Init /\ [][Next]_vars

\* One run of a driver, from its start to the end of its process, without
\* a later process on the same study.
NextRun ==
  \/ Main
  \/ Ask
  \/ EvaluatorReturns
  \/ Expire
  \/ Finish
  \/ HoldoutReturns
  \/ Crash

\* A live driver process takes its next step: the loop goes on to the next
\* trial or to the report, and every Evaluator call ends (it returns, or
\* subprocess.run cuts it off at its timeout).
SpecFair ==
  /\ Init
  /\ [][NextRun]_vars
  /\ WF_vars(Ask)
  /\ WF_vars(EvaluatorReturns)
  /\ WF_vars(Finish)

\* ------------------------------------------------- the analyzer's script
\* No driver process runs while the analyzer does; the ledger it reads is
\* the one in `study`.
DriverIdle ==
  /\ driver = "excellent_fit"
  /\ files = Needed("excellent_fit")
  /\ resume = TRUE
  /\ studyTimeout = FALSE
  /\ pc = "start"
  /\ trials = <<>>
  /\ i_trial = 0
  /\ expired = FALSE
  /\ result = NoResult
  /\ weightsFile = None
  /\ paramFile = NoFile
  /\ bestOut = None
  /\ bestFile = NoFile

driverVars ==
  <<driver, files, resume, studyTimeout, pc, trials, i_trial, expired,
    result, weightsFile, paramFile, bestOut, bestFile>>

InitAnalyzer ==
  /\ DriverIdle
  /\ \E n \in 0..MaxStudy, vp \in ValuePatterns, sp \in StatePatterns :
       study = StudyOf(n, vp, sp)
  /\ baselineFile \in BaselineInputs
  /\ apc = "loaded"
  /\ analysis = None
  /\ report = None

\* Lines 36-123: build the analysis and dump it.  study.best_trial raises
\* ValueError when the study holds no COMPLETE trial.
Analyze ==
  /\ apc = "loaded"
  /\ IF Completed(study) = {}
       THEN /\ apc' = "failed"
            /\ analysis' = analysis
       ELSE /\ apc' = "analyzed"
            /\ analysis' = Analysis(study, baselineFile)
  /\ UNCHANGED <<driverVars, study, baselineFile, report>>

\* Lines 125-181: write the markdown report.
WriteReport ==
  /\ apc = "analyzed"
  /\ report' = Report(analysis)
  /\ apc' = "reported"
  /\ UNCHANGED <<driverVars, study, baselineFile, analysis>>

NextAnalyzer ==
  \/ Analyze
  \/ WriteReport

SpecAnalyzer == InitAnalyzer /\ [][NextAnalyzer]_vars

TypeOK ==
  /\ driver \in Drivers
  /\ pc \in {"start", "exited", "loop", "evaluating", "holdout"} \cup Ended
  /\ \A i \in 1..Len(trials) :
       trials[i].state \in {"RUNNING", "COMPLETE", "PRUNED", "FAIL"}
  /\ i_trial \in 0..N_TRIALS
  /\ result \in Results \cup {NoResult}

\* ------------------------------------------------------------ properties
\* The trial the latest Evaluator result was recorded on: the last of the
\* ledger, or the one before it while the next trial is in flight.
Told ==
  IF trials[Len(trials)].state = "RUNNING"
    THEN trials[Len(trials) - 1]
    ELSE trials[Len(trials)]

\* The captured error text of r holds one of the transient signatures.
SignatureIn(r) ==
  \E s \in {"insufficient_quota", "429", "RateLimitError"} :
    \E i \in 1..Len(ErrorOutput(r)) : ErrorOutput(r)[i] = s

TransientFailure(r) == r.kind = "exit" /\ r.rc # 0 /\ SignatureIn(r)

BudgetRemains == i_trial < N_TRIALS /\ ~TimeBudgetHit

\* C1: in the excellent-fit driver, a non-zero exit whose captured error
\* text contains "insufficient_quota", "429" or "RateLimitError" ends the
\* trial PRUNED, never FAILED, the loop is not aborted, and while budget
\* remains the next trial can be proposed.
C1_TransientFailurePruned ==
  (driver = "excellent_fit" /\ TransientFailure(result)) =>
     /\ Told.state = "PRUNED"
     /\ pc # "aborted"
     /\ (pc = "loop" /\ BudgetRemains) => ENABLED Ask

\* a trial pruned for a "429" and the next trial already in flight
C1_Witness ==
  /\ driver = "excellent_fit"
  /\ result.kind = "exit" /\ result.rc # 0
  /\ Contains(ErrorOutput(result), "429")
  /\ pc = "evaluating"
  /\ Len(trials) >= 2
  /\ trials[Len(trials) - 1].state = "PRUNED"

\* C2: in the excellent-fit driver a timed-out Evaluator call ends the
\* trial PRUNED with no value and the study goes on; trial numbers are
\* strictly increasing along the ledger, none is reused.
C2_TimeoutPrunedNumbersIncrease ==
  /\ (driver = "excellent_fit" /\ result.kind = "timeout") =>
        /\ Told.state = "PRUNED"
        /\ Told.value = None
        /\ pc # "aborted"
  /\ \A i, j \in 1..Len(trials) :
        i < j => trials[i].number < trials[j].number

\* a timed-out trial, pruned, and the trial after it with the next number
C2_Witness ==
  /\ driver = "excellent_fit"
  /\ result.kind = "timeout"
  /\ pc = "evaluating"
  /\ Len(trials) >= 2
  /\ trials[Len(trials) - 1].state = "PRUNED"
  /\ trials[Len(trials)].number = trials[Len(trials) - 1].number + 1

\* The drivers that call the Evaluator with a literal timeout.
FixedTimeoutDrivers ==
  {"ranking", "bm25", "field_weights", "stage_a", "desc_weight", "stage2"}

\* C3: in the drivers with a fixed Evaluator timeout, a timed-out call ends
\* only that trial, as PRUNED, and never aborts the study.
C3_TimeoutNeverAborts ==
  (driver \in FixedTimeoutDrivers /\ result.kind = "timeout") =>
     /\ Told.state = "PRUNED"
     /\ pc # "aborted"

\* C4: a non-zero exit whose error text matches no transient signature ends
\* the trial FAILED and stops the loop; the failed trial stays the last
\* trial the run created, whatever budget remains.
C4_HardFailureAborts ==
  (/\ result.kind = "exit"
   /\ result.rc # 0
   /\ ~SignatureIn(result)) =>
     /\ pc = "aborted"
     /\ trials[Len(trials)].state = "FAIL"

\* a run aborted by a hard failure with trial and time budget left
C4_Witness ==
  /\ driver = "excellent_fit"
  /\ result.kind = "exit" /\ result.rc # 0
  /\ ~SignatureIn(result)
  /\ pc = "aborted"
  /\ BudgetRemains
  /\ trials[Len(trials)].state = "FAIL"

\* The study has just been opened by a process.
JustOpened == pc = "loop" /\ i_trial = 0

\* C5: a study reopened on the durable backend holds exactly the trials
\* that were fully recorded: numbered 0..N-1, none of them unfinished.
C5_ReopenedHoldsRecordedTrials ==
  JustOpened =>
    \A i \in 1..Len(trials) :
      /\ trials[i].number = i - 1
      /\ trials[i].state # "RUNNING"

C7_NoUsableResultReported ==
  (/\ pc \in {"done", "no_result", "lookup_error"}
   /\ trials # <<>>
   /\ \A i \in 1..Len(trials) : trials[i].state = "PRUNED") =>
     /\ pc = "no_result"
     /\ bestOut = None
  /\ bestFile = NoFile

\* C8: with any artifact the run uses missing at start, the driver ends
\* before a trial exists or a parameter file is written.
C8_MissingPrerequisiteFailsFast ==
  ~(Needed(driver) \subseteq files) =>
     /\ trials = <<>>
     /\ weightsFile = None

\* C9: the step that aborts the study changes no trial but the failing
\* one, and the ledger of an aborted study is the one the caller and a
\* reopening process see.
C9_AbortKeepsLedger ==
  [][ /\ pc' = "aborted" =>
           /\ Len(trials') = Len(trials)
           /\ \A i \in 1..(Len(trials) - 1) : trials'[i] = trials[i]
      /\ (pc = "aborted" \/ pc = "start") => trials' = trials ]_vars

\* an aborted study that holds an earlier COMPLETE trial
C9_Witness ==
  /\ pc = "aborted"
  /\ Len(trials) >= 2
  /\ trials[1].state = "COMPLETE"
  /\ trials[Len(trials)].state = "FAIL"

\* C10: every trial is created RUNNING and has made its one transition
\* once its process is past it; a trial in a terminal state never changes
\* and is never removed.
C10_TrialLifecycle ==
  /\ [](pc \in {"loop", "done", "no_result", "lookup_error", "aborted"} =>
          \A i \in 1..Len(trials) : trials[i].state # "RUNNING")
  /\ [][ /\ Len(trials') >= Len(trials)
         /\ \A i \in 1..Len(trials) :
              trials[i].state # "RUNNING" => trials'[i] = trials[i]
         /\ \A i \in (Len(trials) + 1)..Len(trials') :
              trials'[i].state = "RUNNING" ]_vars

\* Index of the last non-blank line of a captured stdout, 0 if it has none.
LastNonBlank(out) ==
  IF \A i \in 1..Len(out) : out[i] = "" THEN 0
  ELSE CHOOSE i \in 1..Len(out) :
         out[i] # "" /\ \A j \in (i + 1)..Len(out) : out[j] = ""

\* The number a line of text writes: none for a line that is no numeral.
NumberOn(l) ==
  {v \in {0, 1, 2, 3, 429} :
     l = (CASE v = 0 -> "0" [] v = 1 -> "1" [] v = 2 -> "2" [] v = 3 -> "3"
            [] v = 429 -> "429")}

\* C11: a trial has a value exactly when its state is COMPLETE, so a
\* timed-out, pruned, failed or running trial has none; and the value of a
\* COMPLETE trial is the number on the last non-blank line of the stdout
\* of its Evaluator call, which exited 0.
C11_ValueIffComplete ==
  /\ \A i \in 1..Len(trials) :
       trials[i].value # None <=> trials[i].state = "COMPLETE"
  /\ (result # NoResult /\ Told.state = "COMPLETE") =>
       /\ result.kind = "exit" /\ result.rc = 0
       /\ LastNonBlank(result.stdout) # 0
       /\ NumberOn(result.stdout[LastNonBlank(result.stdout)]) =
            {Told.value[1]}

\* a COMPLETE trial whose value was read below another numeric line, in a
\* ledger that also holds a pruned trial without a value
C11_Witness ==
  /\ result # NoResult
  /\ result.stdout = <<"0", "1">>
  /\ Told.state = "COMPLETE"
  /\ Told.value = Some(1)
  /\ \E i \in 1..Len(trials) :
       trials[i].state = "PRUNED" /\ trials[i].value = None

\* C12: at every point of a study's life, crash and resumption included,
\* at most one trial is RUNNING, and a trial is followed by another only
\* once it is in a terminal state.
C12_OneTrialInFlight ==
  /\ Cardinality({i \in 1..Len(trials) : trials[i].state = "RUNNING"}) <= 1
  /\ \A i \in 1..(Len(trials) - 1) : trials[i].state # "RUNNING"

\* C13: with STUDY_TIMEOUT set, the expiry of the time budget changes
\* nothing by itself, the trial in flight is still recorded from its own
\* Evaluator result, no trial is started once the budget has run out, and
\* the stop that follows keeps the ledger and writes the parameters of a
\* COMPLETE trial of the largest value as the best weights.
C13_TimeoutStopsBetweenTrials ==
  [][ /\ (studyTimeout /\ ~expired /\ expired') =>
           /\ pc' = pc
           /\ trials' = trials
           /\ result' = result
      /\ (studyTimeout /\ expired /\ pc = "evaluating"
            /\ pc' \in {"loop", "aborted"}) =>
           /\ result' \in Results
           /\ Len(trials') = Len(trials)
           /\ trials'[Len(trials)].state # "RUNNING"
      /\ (studyTimeout /\ expired) => Len(trials') = Len(trials)
      /\ (studyTimeout /\ expired /\ pc = "loop"
            /\ pc' \in {"done", "no_result", "lookup_error"}) =>
           /\ trials' = trials
           /\ Completed(trials) # {} =>
                /\ pc' = "done"
                /\ \E b \in Completed(trials) :
                     /\ \A j \in Completed(trials) :
                          trials[j].value[1] <= trials[b].value[1]
                     /\ bestOut' = Some(trials[b].params) ]_vars

\* a run stopped by the time budget with trial budget left, its one
\* COMPLETE trial written as the best weights
C13_Witness ==
  /\ studyTimeout /\ expired
  /\ pc = "done"
  /\ i_trial < N_TRIALS
  /\ Completed(trials) # {}
  /\ bestOut # None

\* C14: an Evaluator call that exits 0 with an empty stdout, or with a
\* last non-blank line that is not a number, ends the trial FAILED and
\* aborts the loop: the failed trial is the last trial of the run.
C14_MalformedOutputAborts ==
  (/\ result.kind = "exit"
   /\ result.rc = 0
   /\ \/ LastNonBlank(result.stdout) = 0
      \/ NumberOn(result.stdout[LastNonBlank(result.stdout)]) = {}) =>
     /\ Told.state = "FAIL"
     /\ pc = "aborted"
     /\ trials[Len(trials)].state = "FAIL"

\* The keys of the parameter file that hold a sampled value, per driver.
SampledKeys(d) ==
  CASE d \in {"excellent_fit", "stage2", "ranking"} -> {"anchor_per_match"}
    [] d \in {"bm25", "stage_a"} -> {"k1"}
    [] d \in {"desc_weight", "field_weights"} -> {"field_weights.description"}

\* The base configuration of a driver's study; stage_a has none.
BaseOf(d) == IF d = "stage_a" THEN NoFile ELSE BaseConfig

\* C15: while a trial is evaluated, the parameter file holds this trial's
\* sampled value under every sampled key and, under every other key,
\* nested ones included, the value the base configuration had before the
\* study started.
C15_ParamFileIsBaseWithOverlay ==
  pc = "evaluating" =>
    \A k \in ParamKeys :
      paramFile[k] = IF k \in SampledKeys(driver)
                       THEN Some(trials[Len(trials)].params)
                       ELSE BaseOf(driver)[k]

\* ------------------------------------------------ properties of the analyzer
\* The analysis has been dumped.
Analyzed == apc \in {"analyzed", "reported"}

\* The value of trial i of the loaded study, for a COMPLETE trial.
ValueOf(i) == study[i].value[1]

\* The largest value of a COMPLETE trial of the loaded study.
BestCompleteValue ==
  CHOOSE v \in {ValueOf(i) : i \in Completed(study)} :
    \A i \in Completed(study) : ValueOf(i) <= v

\* The baseline the analyzer compares with: the file's, or the known one.
BaselineUsed == IF baselineFile = None THEN 65 ELSE baselineFile[1]

\* C16: the improvement over the baseline is the best COMPLETE value minus
\* the baseline whenever both are present, zero and negative values
\* included.
C16_ImprovementIsBestMinusBaseline ==
  Analyzed =>
    analysis.summary.improvement_over_baseline =
      Some(BestCompleteValue - BaselineUsed)

ComparisonSection == "Parameter Analysis: Top 10 vs Bottom 10"

\* C17 as stated: the top-vs-bottom analysis is computed exactly when at
\* least 20 trials are COMPLETE, and below 20 it is absent from the JSON
\* snapshot and from the markdown report alike.
C17_AbsentFromBothOutputs ==
  Analyzed =>
    IF Cardinality(Completed(study)) >= 20
      THEN /\ "correlation_analysis" \in analysis.keys
           /\ Len(analysis.correlation_analysis) = Len(ParamNames)
           /\ apc = "reported" => ComparisonSection \in report.sections
      ELSE /\ "correlation_analysis" \notin analysis.keys
           /\ apc = "reported" => ComparisonSection \notin report.sections

\* C17, amended: the top-vs-bottom analysis is computed exactly when at
\* least 20 trials are COMPLETE; below 20 its section is absent from the
\* markdown report, while the JSON snapshot holds the key with an empty
\* object.
C17_SectionAbsentBelowThreshold ==
  Analyzed =>
    /\ "correlation_analysis" \in analysis.keys
    /\ IF Cardinality(Completed(study)) >= 20
         THEN /\ Len(analysis.correlation_analysis) = Len(ParamNames)
              /\ apc = "reported" => ComparisonSection \in report.sections
         ELSE /\ analysis.correlation_analysis = <<>>
              /\ apc = "reported" =>
                   /\ ComparisonSection \notin report.sections
                   /\ report.comparison_rows = <<>>

\* a report written for 19 COMPLETE trials out of more trials
C17_Witness ==
  /\ apc = "reported"
  /\ Cardinality(Completed(study)) = 19
  /\ Len(study) > 19
  /\ ComparisonSection \notin report.sections

\* v is the element at 0-based index k of the COMPLETE values in
\* ascending order.
IsOrderStatistic(v, k) ==
  /\ \E i \in Completed(study) : ValueOf(i) = v
  /\ Cardinality({i \in Completed(study) : ValueOf(i) < v}) <= k
  /\ Cardinality({i \in Completed(study) : ValueOf(i) <= v}) > k

\* C18: for n >= 1 COMPLETE values, q25 is the element at index floor(n/4)
\* and q75 the element at index floor(3n/4) of the values in ascending
\* order, both indices within 0..n-1; for the values 1..8 they are 3 and 7.
C18_QuartilesByFloorIndex ==
  Analyzed =>
    LET n == Cardinality(Completed(study))
    IN  /\ n >= 1
        /\ (n \div 4) \in 0..(n - 1)
        /\ ((3 * n) \div 4) \in 0..(n - 1)
        /\ IsOrderStatistic(analysis.value_distribution.q25, n \div 4)
        /\ IsOrderStatistic(analysis.value_distribution.q75, (3 * n) \div 4)
        /\ (n = 8 /\ {ValueOf(i) : i \in Completed(study)} = 1..8) =>
             /\ analysis.value_distribution.q25 = 3
             /\ analysis.value_distribution.q75 = 7

\* the analysis of a study whose COMPLETE values are 1, 2, ..., 8
C18_Witness ==
  /\ Analyzed
  /\ Cardinality(Completed(study)) = 8
  /\ {ValueOf(i) : i \in Completed(study)} = 1..8
  /\ analysis.value_distribution.q25 = 3
  /\ analysis.value_distribution.q75 = 7

\* Trial j comes before trial i when the COMPLETE trials are put highest
\* value first, equal values in ledger order.
RanksBefore(j, i) ==
  \/ ValueOf(j) > ValueOf(i)
  \/ ValueOf(j) = ValueOf(i) /\ j < i

\* The 10 highest-value and the 10 lowest-value COMPLETE trials.
TopGroup ==
  {i \in Completed(study) :
     Cardinality({j \in Completed(study) : RanksBefore(j, i)}) < 10}
BottomGroup ==
  {i \in Completed(study) :
     Cardinality({j \in Completed(study) : RanksBefore(i, j)}) < 10}

RECURSIVE SumOfParam(_, _)
SumOfParam(S, name) ==
  IF S = {} THEN 0
  ELSE LET i == CHOOSE i \in S : TRUE
       IN  study[i].params[name] + SumOfParam(S \ {i}, name)

\* The fraction q is the number x / 10.
IsTenth(q, x) == q.num * 10 = x * q.den

\* Entry e holds the means of its parameter over the two groups and their
\* signed difference.
ComparesGroups(e) ==
  /\ IsTenth(e.top_10_mean, SumOfParam(TopGroup, e.param))
  /\ IsTenth(e.bottom_10_mean, SumOfParam(BottomGroup, e.param))
  /\ IsTenth(e.difference,
             SumOfParam(TopGroup, e.param) - SumOfParam(BottomGroup, e.param))

\* The entries of rows are in order of non-increasing absolute difference.
ByAbsDifference(rows) ==
  \A i, j \in 1..Len(rows) :
    i < j =>
      LET a == rows[i].difference
          b == rows[j].difference
      IN  (IF a.num < 0 THEN 0 - a.num ELSE a.num) * b.den
            >= (IF b.num < 0 THEN 0 - b.num ELSE b.num) * a.den

\* There is one entry of rows for each parameter.
OnePerParameter(rows) ==
  /\ Len(rows) = Len(ParamNames)
  /\ \A k \in 1..Len(ParamNames) :
       \E r \in 1..Len(rows) : rows[r].param = ParamNames[k]

\* C19 as stated: with at least 20 COMPLETE trials, each parameter has the
\* mean over the 10 highest-value trials, the mean over the 10 lowest-value
\* trials, two disjoint groups, and the difference top minus bottom, and
\* the entries are in order of non-increasing absolute difference in the
\* JSON snapshot and in the markdown report.
C19_OrderedInBothOutputs ==
  (Analyzed /\ Cardinality(Completed(study)) >= 20) =>
    /\ TopGroup \cap BottomGroup = {}
    /\ OnePerParameter(analysis.correlation_analysis)
    /\ \A r \in 1..Len(analysis.correlation_analysis) :
         ComparesGroups(analysis.correlation_analysis[r])
    /\ ByAbsDifference(analysis.correlation_analysis)
    /\ apc = "reported" => ByAbsDifference(report.comparison_rows)

\* C19, amended: the same means and difference for each parameter; the
\* rows of the markdown report are in order of non-increasing absolute
\* difference, and the JSON snapshot keeps the parameters in the order of
\* the trials' params.
C19_OrderedInReport ==
  (Analyzed /\ Cardinality(Completed(study)) >= 20) =>
    /\ Cardinality(TopGroup) = 10
    /\ Cardinality(BottomGroup) = 10
    /\ TopGroup \cap BottomGroup = {}
    /\ \A r \in 1..Len(ParamNames) :
         /\ analysis.correlation_analysis[r].param = ParamNames[r]
         /\ ComparesGroups(analysis.correlation_analysis[r])
    /\ Len(analysis.correlation_analysis) = Len(ParamNames)
    /\ apc = "reported" =>
         /\ OnePerParameter(report.comparison_rows)
         /\ \A r \in 1..Len(report.comparison_rows) :
              ComparesGroups(report.comparison_rows[r])
         /\ ByAbsDifference(report.comparison_rows)

\* a report over at least 20 COMPLETE trials and some others, whose rows
\* are not in the order of the snapshot's entries
C19_Witness ==
  /\ apc = "reported"
  /\ Cardinality(Completed(study)) >= 20
  /\ Len(study) > Cardinality(Completed(study))
  /\ report.comparison_rows # analysis.correlation_analysis
  /\ ~ByAbsDifference(analysis.correlation_analysis)

\* The loaded study with other trials around the same COMPLETE trials:
\* PRUNED and FAIL exchanged, unfinished trials failed, their parameters
\* changed, and one more PRUNED trial at the end.
OtherStudy ==
  [i \in 1..(Len(study) + 1) |->
     IF i = Len(study) + 1
       THEN [number |-> Len(study), state |-> "PRUNED", value |-> None,
             params |-> ParamsAt(1, 9)]
     ELSE IF study[i].state = "COMPLETE" THEN study[i]
     ELSE [study[i] EXCEPT
             !.state = IF @ = "FAIL" THEN "PRUNED" ELSE "FAIL",
             !.params = ParamsAt(3, 9)]]

\* C20: the analysis of a study and the analysis of a study with the same
\* COMPLETE trials but other PRUNED, FAILED or RUNNING trials agree on the
\* value distribution, the parameter statistics, the top-10 list, the
\* top-vs-bottom comparison, the best value and the improvement; they
\* differ in the total number of trials at most.
C20_OnlyCompleteTrialsMatter ==
  Analyzed =>
    LET other == Analysis(OtherStudy, baselineFile)
    IN  /\ other.summary.total_trials # analysis.summary.total_trials
        /\ [other EXCEPT !.summary.total_trials = 0] =
             [analysis EXCEPT !.summary.total_trials = 0]
        /\ apc = "reported" => report = Report(other)

\* the analysis of at least 20 COMPLETE trials in a ledger that also holds
\* pruned and unfinished trials
C20_Witness ==
  /\ Analyzed
  /\ Cardinality(Completed(study)) >= 20
  /\ \E i \in 1..Len(study) : study[i].state = "PRUNED"
  /\ \E i \in 1..Len(study) : study[i].state = "RUNNING"
  /\ analysis.summary.total_trials > analysis.summary.completed_trials

\* The fraction q is the integer x.
IsInteger(q, x) == q.den # 0 /\ q.num = x * q.den

\* C21: when all COMPLETE trials have one value v, the distribution has
\* min = max = mean = median = q25 = q75 = v and std = 0; with fewer than
\* two COMPLETE values the std is 0.
C21_EqualValuesDistribution ==
  Analyzed =>
    LET d == analysis.value_distribution
    IN  /\ \A v \in {ValueOf(i) : i \in Completed(study)} :
             (\A i \in Completed(study) : ValueOf(i) = v) =>
               /\ d.min = v /\ d.max = v
               /\ IsInteger(d.mean, v)
               /\ IsInteger(d.median, v)
               /\ d.q25 = v /\ d.q75 = v
               /\ IsInteger(d.std, 0)
        /\ Cardinality(Completed(study)) < 2 => IsInteger(d.std, 0)

\* the analysis of ten COMPLETE trials of one value that is not zero
C21_Witness ==
  /\ Analyzed
  /\ Cardinality(Completed(study)) = 10
  /\ \A i \in Completed(study) : ValueOf(i) = 1
  /\ analysis.value_distribution.std.num = 0

\* C27: for a study without a COMPLETE trial the analyzer does not fail:
\* it produces its analysis, with q25 and q75 absent.
C27_AnalyzesWithoutCompleteTrial ==
  (apc # "loaded" /\ Completed(study) = {}) =>
    /\ Analyzed
    /\ analysis.value_distribution.q25 = None
    /\ analysis.value_distribution.q75 = None

\* C28: the top-10 list holds min(10, n) distinct COMPLETE trials of the
\* study with their values, in non-increasing order of value; its first
\* value is the summary's best value, the largest COMPLETE value; and the
\* summary's best trial number is the number of a COMPLETE trial.
C28_TopTenList ==
  Analyzed =>
    LET top == analysis.top_10_trials
        n == Cardinality(Completed(study))
    IN  /\ Len(top) = IF n < 10 THEN n ELSE 10
        /\ \A r \in 1..Len(top) :
             \E i \in Completed(study) :
               /\ study[i].number = top[r].number
               /\ ValueOf(i) = top[r].value
               /\ study[i].params = top[r].params
        /\ \A r, q \in 1..Len(top) :
             r < q => /\ top[r].value >= top[q].value
                      /\ top[r].number # top[q].number
        /\ \A i \in Completed(study) :
             (\A r \in 1..Len(top) : top[r].number # study[i].number) =>
                ValueOf(i) <= top[Len(top)].value
        /\ top[1].value = analysis.summary.best_value
        /\ analysis.summary.best_value = BestCompleteValue
        /\ \E i \in Completed(study) :
             /\ study[i].number = analysis.summary.best_trial_number
             /\ ValueOf(i) = BestCompleteValue
        /\ apc = "reported" => report.top_10_rows = top

\* a top-10 list cut from more than ten COMPLETE trials with equal values
\* among them, in a ledger that holds other trials too
C28_Witness ==
  /\ apc = "reported"
  /\ Cardinality(Completed(study)) > 10
  /\ Len(study) > Cardinality(Completed(study))
  /\ Len(analysis.top_10_trials) = 10
  /\ analysis.top_10_trials[1].value = analysis.top_10_trials[2].value
  /\ analysis.top_10_trials[1].value > analysis.top_10_trials[10].value

\* -------------------------------------------- properties of the drivers (2)
\* The loop of optimize() has ended: by an exception of the objective, by
\* the trial budget or by the time budget.
LoopEnded ==
  \/ pc = "aborted"
  \/ pc = "loop" /\ (i_trial >= N_TRIALS \/ (studyTimeout /\ expired))

\* Trial b of the ledger is the best: COMPLETE, of the largest value, the
\* earliest of that value.
IsBest(b) ==
  /\ b \in Completed(trials)
  /\ \A j \in Completed(trials) :
       /\ trials[j].value[1] <= trials[b].value[1]
       /\ trials[j].value[1] = trials[b].value[1] => b <= j

\* C22: from each state that ends the loop, the abort after a FAILED trial
\* included, the driver goes on to report: the step to DONE can be taken,
\* and it reports the best COMPLETE trial, or the no-usable-result outcome
\* when there is none.
C22_LoopEndReachesDone ==
  /\ [](LoopEnded => ENABLED Finish)
  /\ [][ (LoopEnded /\ pc' \notin {pc, "crashed", "start"}) =>
           IF Completed(trials) = {}
             THEN pc' = "no_result"
             ELSE /\ pc' \in {"done", "holdout"}
                  /\ \E b \in Completed(trials) :
                       IsBest(b) /\ bestOut' = Some(trials[b].params) ]_vars

\* C23: a run that opens a study holding k trials creates at most
\* max(0, N_TRIALS - k) trials, and the ledger never holds more than
\* N_TRIALS trials.
C23_ResumedRunRespectsBudget ==
  /\ i_trial <= Remaining(Len(trials) - i_trial)
  /\ Len(trials) <= N_TRIALS

\* The study has ended gracefully with a COMPLETE trial and the best
\* weights have been written.
BestWritten == pc \in {"done", "holdout", "holdout_error"}

\* The parameter file read by the holdout Evaluator holds the best trial's
\* value under every tuned key.
HoldoutReadsBest(b) ==
  driver \in {"ranking", "bm25", "field_weights"} =>
    \A k \in SampledKeys(driver) : paramFile[k] = Some(trials[b].params)

\* C25 as stated: after a graceful end with a COMPLETE trial, the
\* best-weights file of every driver is the base configuration with each
\* tuned key set to the best trial's value, and the parameter file of the
\* holdout run holds the best values under the tuned keys.
C25_BestFileIsBaseWithBest ==
  BestWritten =>
    \E b \in Completed(trials) :
      /\ IsBest(b)
      /\ \A k \in ParamKeys :
           bestFile[k] = IF k \in SampledKeys(driver)
                           THEN Some(trials[b].params)
                           ELSE BaseOf(driver)[k]
      /\ HoldoutReadsBest(b)

\* C25, amended: the same for every driver but field_weights, whose
\* best-weights file holds the field_weights group of the best trial and
\* no other key.
C25_BestFileHoldsBest ==
  BestWritten =>
    \E b \in Completed(trials) :
      /\ IsBest(b)
      /\ \A k \in ParamKeys :
           bestFile[k] =
             IF k \in SampledKeys(driver) THEN Some(trials[b].params)
             ELSE IF driver = "field_weights" THEN None
             ELSE BaseOf(driver)[k]
      /\ HoldoutReadsBest(b)

\* the holdout run of ranking reads the parameters of the first trial,
\* the best, after a second trial sampled another point
C25_Witness ==
  /\ driver = "ranking"
  /\ pc = "holdout"
  /\ Len(trials) = 2
  /\ IsBest(1)
  /\ trials[2].state = "COMPLETE"
  /\ trials[1].params # trials[2].params
  /\ paramFile["anchor_per_match"] = Some(trials[1].params)

\* C26: while the Evaluator runs for a trial, the parameter file holds that
\* trial's sampled values; the file is written in the step that creates
\* the trial and starts the Evaluator, and it is not written again before
\* the trial has left RUNNING.
C26_ParamFileOwnedByTrialInFlight ==
  /\ [](pc = "evaluating" =>
          /\ trials[Len(trials)].state = "RUNNING"
          /\ \A k \in SampledKeys(driver) :
               paramFile[k] = Some(trials[Len(trials)].params))
  /\ [][ /\ pc = "evaluating" => paramFile' = paramFile
         /\ paramFile' # paramFile =>
              /\ pc = "loop"
              /\ \/ pc' = "evaluating" /\ Len(trials') = Len(trials) + 1
                 \/ pc' = "holdout" /\ trials' = trials ]_vars

\* the second trial of a run is evaluated on its own point, not on the
\* first trial's
C26_Witness ==
  /\ pc = "evaluating"
  /\ Len(trials) = 2
  /\ trials[1].params # trials[2].params
  /\ \A k \in SampledKeys(driver) : paramFile[k] = Some(trials[2].params)

\* C29: for an Evaluator call of the excellent-fit driver that exited, the
\* trial is PRUNED exactly when the exit status is non-zero and the error
\* text holds a transient signature, FAILED for every other non-zero exit,
\* and after exit status 0 it is never PRUNED: a numeric last line makes
\* it COMPLETE whatever the diagnostic text holds.
C29_PruneDecision ==
  (driver = "excellent_fit" /\ result.kind = "exit") =>
    /\ Told.state = "PRUNED" <=> (result.rc # 0 /\ SignatureIn(result))
    /\ (result.rc # 0 /\ ~SignatureIn(result)) => Told.state = "FAIL"
    /\ (/\ result.rc = 0
        /\ LastNonBlank(result.stdout) # 0
        /\ NumberOn(result.stdout[LastNonBlank(result.stdout)]) # {}) =>
         Told.state = "COMPLETE"

\* exit status 0 with "429" on stderr and a number on stdout: COMPLETE
C29_Witness ==
  /\ driver = "excellent_fit"
  /\ result.kind = "exit" /\ result.rc = 0
  /\ result.stderr = <<"429">>
  /\ result.stdout = <<"1">>
  /\ Told.state = "COMPLETE"
  /\ Told.value = Some(1)

\* C24: every trial a run creates takes one unit of its trial budget,
\* whatever its outcome, and none is given back, so a run creates at most
\* N_TRIALS trials; and with every Evaluator call ending, the driver
\* always leaves its loop, also when every trial is pruned.
C24_BudgetCountsEveryTrial ==
  /\ [](i_trial <= N_TRIALS)
  /\ [][ /\ Len(trials') > Len(trials) =>
              /\ Len(trials') = Len(trials) + 1
              /\ i_trial < N_TRIALS
              /\ i_trial' = i_trial + 1
         /\ i_trial' # i_trial =>
              \/ Len(trials') = Len(trials) + 1
              \/ pc' = "start" /\ i_trial' = 0 ]_vars
  /\ (pc \in {"loop", "evaluating"}) ~> (pc \notin {"loop", "evaluating"})

\* a run has used up its budget on pruned trials alone and has left the
\* loop
C24_Witness ==
  /\ i_trial = N_TRIALS
  /\ Len(trials) = N_TRIALS
  /\ \A i \in 1..Len(trials) : trials[i].state = "PRUNED"
  /\ pc \notin {"loop", "evaluating", "start"}

====
